---------------------------- MODULE Spec2Model ----------------------------
(***************************************************************************)
(* Model of hp6633.c: control of the HP6633A power supply over GPIB.       *)
(*                                                                         *)
(* The model covers main() from the end of the option parsing to the       *)
(* return, one action per statement group, and the hp663X_* helpers.       *)
(*                                                                         *)
(* Voltages are held in millivolts.  The command lines drawn by Init use   *)
(* whole volts and steps of 750 mV and 1000 mV: these values and all their *)
(* sums are dyadic rationals that a C float holds exactly, so that the     *)
(* float accumulation "ramp_volt += ramp*0.001" of the source is exact on  *)
(* them and integer arithmetic in millivolts computes the same values.     *)
(*                                                                         *)
(* Left out, as they do not influence the control flow modelled here: the  *)
(* current limit and the overcurrent flag (-i, -I), the comment text, the  *)
(* GPIB address, the elapsed time inside a record, and the wait for a key  *)
(* press before the final pclose.  A command line always names the output  *)
(* file.  A dataset line carries its kind, the value of loop, the value of *)
(* ramp at the time it was written and, for a record, volt and amp.        *)
(*                                                                         *)
(* A response of the instrument is a sequence of bytes, written as tokens: *)
(* digits, "x" for a byte that starts no number, "CR" and "LF".  Under     *)
(* Spec the instrument answers every query with the regular reading; under *)
(* SpecNoisy it may answer up to MaxOdd times with another response, on a  *)
(* smaller set of command lines.                                           *)
(***************************************************************************)
EXTENDS Integers, Sequences, FiniteSets, TLC

(* ---- program constants ---- *)
MAXVOLT == 50
ESC == 27
ERR_FILE == 4
ERR_INST == 5
\* ibrd(inst, result, 11)
READLEN == 11
KEY_q == 113
\* some key other than 'q' and ESC
KEY_other == KEY_q + 1
\* the byte 0xFF, which a terminal can deliver as well
KEY_FF == 255
\* "static int peek_character = -1": no character peeked
NO_PEEK == 0 - 1

(* ---- bounds of the model ---- *)
MaxVolts == 5
MaxSetVolts == 1
MaxFlush == 3
MaxStaticCycles == 4
MaxOdd == 1

StepChoices == {0, 750, 0 - 750, 1000, 0 - 1000}
KeyChoices == {KEY_q, ESC, KEY_other, KEY_FF}

VARIABLES
    argv,         \* the command line as decoded by GetOpt (never changes)
    pc,           \* position in main()
    set_volt, max_volt, set_limvolt,   \* mV
    ramp, dramp, dramp_avail, do_graph, do_reset, do_flush, delay,
    key, loop, ramp_volt,
    inst,         \* 0 = no device handle, 1 = handle returned by ibdev
    outfile,      \* "NULL", "open", "closed"
    fbuf,         \* lines written to outfile that sit in the stdio buffer
    disk,         \* lines of the dataset file on disk
    gp,           \* "NULL", "open", "closed", "invalid" (pclose of a null pointer)
    gpcmds,       \* commands written to the gnuplot pipe
    kbd,          \* "cooked", "raw", "restored"
    bus,          \* commands the instrument accepted, in order
    cycle,        \* number of loop iterations started
    events,       \* what the current loop iteration has done so far
    failed,       \* the instrument operation that failed, "" if none
    released,     \* hp663X_close was called
    link,         \* "clean": regular readings only; "noisy": any response
    odd,          \* number of responses so far that were not the regular one
    resp,         \* bytes delivered by the last ibrd
    buffer,       \* the text in main's buffer (up to the first NUL)
    volt, amp,    \* the floats written by sscanf, as the digits they hold
    outcome,      \* how the run ended
    retcode       \* value returned by main, -1 while running

vars == <<argv, pc, set_volt, max_volt, set_limvolt, ramp, dramp, dramp_avail,
          do_graph, do_reset, do_flush, delay, key, loop, ramp_volt, inst,
          outfile, fbuf, disk, gp, gpcmds, kbd, bus, cycle, events, failed,
          released, link, odd, resp, buffer, volt, amp, outcome, retcode>>

cfgvars == <<argv, set_volt, max_volt, set_limvolt, do_flush, delay, link>>
readvars == <<odd, resp, buffer, volt, amp>>
rampvars == <<ramp, dramp, dramp_avail, ramp_volt>>
filevars == <<outfile, fbuf, disk>>
gpvars == <<gp, gpcmds>>

(* ---- helpers ---- *)
Abs(x) == IF x < 0 THEN 0 - x ELSE x
CeilDiv(a, b) == (a + b - 1) \div b

Line(kind, cyc, r) == [kind |-> kind, cyc |-> cyc, ramp |-> r,
                       volt |-> << >>, amp |-> << >>]
\* fprintf(outfile, "%.4f\t%.4f\t%.4f\n", t1, volt, amp)
Rec(cyc, r, v, a) == [Line("rec", cyc, r) EXCEPT !.volt = v, !.amp = a]
Blank == Line("blank", 0, 0)
Cmd(c, v, l) == [cmd |-> c, val |-> v, lim |-> l]

ResetCmd == Cmd("OUT 0;RST;CLR", 0, 0)

\* the four header lines
Header == << Line("hdr", 1, 0), Line("hdr", 2, 0), Line("hdr", 3, 0), Line("hdr", 4, 0) >>

\* fprintf(outfile, "# Stop: %s\n", ctime(&t)): ctime ends with a newline itself
Footer == << Line("ftr", 0, 0), Blank >>

\* variant: a single newline is written at the reversal
SegmentBoundary_OneBlank == << Blank >>

\* fprintf(outfile, "\n\n") after a complete line
SegmentBoundary == << Blank, Blank >>

\* fclose / fflush: the buffered lines reach the disk
Fflush(dsk, buf) == dsk \o buf

\* the condition of the if at the top of the ramp branch
BoundReached(r, v, hi, lo) == (r > 0 /\ v > hi) \/ (r < 0 /\ v < lo)

\* variant: the loop body runs once, as with "while (0)"
LoopContinues_Never(k) == FALSE

\* variant: the escape key is not tested
LoopContinues_OnlyQ(k) == k # KEY_q

\* the loop condition of the do ... while
LoopContinues(k) == k # KEY_q /\ k # ESC

\* variant: a ramp is always plotted as one series
PlotCmd_NoIndex(r, avail) == IF r # 0 THEN "plot_iv" ELSE "plot_time"

\* the plot command of the periodic refresh and of the final replot
PlotCmd(r, avail) == IF r # 0 THEN (IF avail THEN "plot_iv_index01" ELSE "plot_iv")
                     ELSE "plot_time"


(* ---- the hp663X_* functions: return value and the bus after the call ---- *)
\* devok: ibdev succeeds; wrtok: ibwrt succeeds
hp663X_open(b, rst, devok, wrtok) ==
    IF ~devok THEN [ret |-> 0, bus |-> b]
    ELSE IF rst
         THEN (IF wrtok THEN [ret |-> 1, bus |-> Append(b, ResetCmd)]
                        ELSE [ret |-> 0, bus |-> b])
         ELSE [ret |-> 1, bus |-> b]

hp663X_set(b, cmd, val, wrtok) ==
    IF wrtok THEN [ret |-> 1, bus |-> Append(b, Cmd(cmd, val, 0))]
             ELSE [ret |-> 0, bus |-> b]

hp663X_setup(b, vset, limvolt, wrtok) ==
    IF wrtok THEN [ret |-> 1, bus |-> Append(b, Cmd("VSET;ISET;OVSET;OCP", vset, limvolt))]
             ELSE [ret |-> 0, bus |-> b]

(* ---- responses and their parsing ---- *)
Digits == {"7", "5"}
Whitespace == {"CR", "LF"}

\* the regular reading: numeric text followed by CR LF
StdResponse == << "7", "5", "CR", "LF" >>

Bodies == { << >>, << "7", "5" >>, << "x" >> }
Terminators == { << "CR", "LF" >>, << "LF" >>, << >> }
AllResponses == { b \o t : b \in Bodies, t \in Terminators }

\* what the instrument may answer to the next query
Responses(l, n) == IF l = "noisy" /\ n < MaxOdd THEN AllResponses ELSE {StdResponse}

\* content of a float or of the buffer that nothing has written yet
Uninit == << "?" >>

Min(a, b) == IF a < b THEN a ELSE b

\* the text without its leading white space, as the %f conversion skips it
SkipWs(t) ==
    LET n == Cardinality({i \in 1..Len(t) : \A j \in 1..i : t[j] \in Whitespace})
    IN SubSeq(t, n + 1, Len(t))

\* the longest prefix made of digits
LeadingDigits(t) ==
    LET n == Cardinality({i \in 1..Len(t) : \A j \in 1..i : t[j] \in Digits})
    IN SubSeq(t, 1, n)

Parseable(t) == LeadingDigits(SkipWs(t)) # << >>

\* sscanf(buffer, "%f", &x) with the return value ignored: x keeps its old
\* content when the text starts no number
sscanf_f(text, old) == IF Parseable(text) THEN LeadingDigits(SkipWs(text)) ELSE old

\* "result[ibcnt-2] = 0x0" for ibcnt >= 2: the text is the first ibcnt-2 bytes
Trim(got) == SubSeq(got, 1, Len(got) - 2)

\* wrtok: the query is written; rdok: ibrd returns the response rsp, of
\* which it stores at most READLEN bytes over the old content buf.
\* With ibcnt < 2 the NUL is written in front of the buffer (oob): the bytes
\* read are then followed by what the buffer held before.
hp663X_read(b, what, buf, wrtok, rdok, rsp) ==
    LET n == Min(Len(rsp), READLEN)
        got == SubSeq(rsp, 1, n) IN
    IF ~wrtok THEN [ret |-> 0, bus |-> b, result |-> buf, oob |-> FALSE]
    ELSE IF ~rdok THEN [ret |-> 0, bus |-> Append(b, Cmd(what, 0, 0)),
                        result |-> buf, oob |-> FALSE]
    ELSE IF n >= 2 THEN [ret |-> 1, bus |-> Append(b, Cmd(what, 0, 0)),
                         result |-> Trim(got), oob |-> FALSE]
    ELSE [ret |-> 1, bus |-> Append(b, Cmd(what, 0, 0)),
          result |-> got \o SubSeq(buf, n + 1, Len(buf)), oob |-> TRUE]

hp663X_close(b, rst, wrtok) ==
    IF rst
    THEN (IF wrtok THEN [ret |-> 1, bus |-> Append(b, ResetCmd)]
                   ELSE [ret |-> 0, bus |-> b])
    ELSE [ret |-> 1, bus |-> b]

\* variant: the dual flag is not cleared at the reversal
Reversal_KeepsDual(r) == [ramp |-> 0 - r, dramp_avail |-> TRUE, dramp |-> TRUE]

\* the reversal branch: new values of ramp, dramp_avail and dramp
Reversal(r) == [ramp |-> 0 - r, dramp_avail |-> TRUE, dramp |-> FALSE]

\* variant: the queries follow the setpoint without the wait
AfterSetpoint_SkipWait == "vout"

\* the statement that follows a sent setpoint: usleep, then the queries
AfterSetpoint == "wait"

\* close_keyboard(): tcsetattr with initial_settings, which holds the saved
\* settings only after init_keyboard() and is zero-initialised before
close_keyboard(k) == IF k = "cooked" THEN "zeroed" ELSE "restored"

\* pclose(gp) without a test of gp
pclose(g) == IF g = "open" THEN "closed" ELSE "invalid"

\* "if (gp) pclose(gp);"
PcloseIfOpen(g) == IF g = "open" THEN "closed" ELSE g

(* ---- initial state: a decoded command line ---- *)
ArgvChoices ==
    [u : {v * 1000 : v \in 0..MaxSetVolts},
     U : {v * 1000 : v \in 0..MaxVolts},
     M : {MaxVolts * 1000, MAXVOLT * 1000},
     r : StepChoices,
     R : BOOLEAN,
     n : BOOLEAN,
     k : BOOLEAN,
     w : {1, MaxFlush},
     t : {0, 10}]

\* the command lines of SpecNoisy
NoisyArgvChoices ==
    [u : {0},
     U : {1000},
     M : {MAXVOLT * 1000},
     r : {0, 1000},
     R : BOOLEAN,
     n : {FALSE},
     k : {FALSE},
     w : {1, MaxFlush},
     t : {0, 10}]

Start ==
    /\ pc = "args"
    /\ set_volt = argv.u
    /\ max_volt = argv.U
    /\ set_limvolt = argv.M
    /\ ramp = argv.r
    /\ dramp = argv.R
    /\ dramp_avail = FALSE
    /\ do_graph = ~argv.n
    /\ do_reset = ~argv.k
    /\ do_flush = argv.w
    /\ delay = argv.t
    /\ key = 0
    /\ loop = 0
    /\ ramp_volt = 0
    /\ inst = 0
    /\ outfile = "NULL"
    /\ fbuf = << >>
    /\ disk = << >>
    /\ gp = "NULL"
    /\ gpcmds = << >>
    /\ kbd = "cooked"
    /\ bus = << >>
    /\ cycle = 0
    /\ events = << >>
    /\ failed = ""
    /\ released = FALSE
    /\ outcome = "running"
    /\ retcode = 0 - 1
    /\ odd = 0
    /\ resp = << >>
    /\ buffer = Uninit
    /\ volt = Uninit
    /\ amp = Uninit

Init == argv \in ArgvChoices /\ link = "clean" /\ Start

InitNoisy == argv \in NoisyArgvChoices /\ link = "noisy" /\ Start

(* ---- main(): checks after the option loop ---- *)
\* variant: a delay of 0 does not imply -k
CheckArgs_KeepsReset ==
    /\ pc = "args"
    /\ IF (ramp # 0 /\ max_volt < set_volt) \/ (ramp # 0 /\ max_volt > set_limvolt)
       THEN /\ pc' = "exit"
            /\ retcode' = 1
            /\ outcome' = "rejected"
            /\ UNCHANGED <<do_graph, do_reset>>
       ELSE /\ IF delay = 0
               THEN /\ do_graph' = FALSE
                    /\ UNCHANGED do_reset
                    /\ pc' = "gpdefaults"
               ELSE /\ UNCHANGED <<do_graph, do_reset>>
                    /\ pc' = "fopen"
            /\ UNCHANGED <<retcode, outcome>>
    /\ UNCHANGED <<cfgvars, readvars, rampvars, key, loop, inst, filevars, gpvars, kbd,
                   bus, cycle, events, failed, released>>

CheckArgs ==
    /\ pc = "args"
    /\ IF (ramp # 0 /\ max_volt < set_volt) \/ (ramp # 0 /\ max_volt > set_limvolt)
       THEN /\ pc' = "exit"
            /\ retcode' = 1
            /\ outcome' = "rejected"
            /\ UNCHANGED <<do_graph, do_reset>>
       ELSE /\ IF delay = 0
               THEN /\ do_graph' = FALSE
                    /\ do_reset' = FALSE
                    /\ pc' = "gpdefaults"
               ELSE /\ UNCHANGED <<do_graph, do_reset>>
                    /\ pc' = "fopen"
            /\ UNCHANGED <<retcode, outcome>>
    /\ UNCHANGED <<cfgvars, readvars, rampvars, key, loop, inst, filevars, gpvars, kbd,
                   bus, cycle, events, failed, released>>

(* ---- main(): output file and gnuplot pipe (delay > 0) ---- *)
\* answer: the reply to "Overwrite?" when the file exists and -f is absent;
\* fopenok: fopen succeeds.  pclose(gp) on the failure path is called with
\* gp == NULL, which is undefined: the call either crashes (main returns
\* nothing) or returns.
OpenOutfile ==
    /\ pc = "fopen"
    /\ \E answer \in {"go", "declined"}, fopenok \in BOOLEAN, crash \in BOOLEAN :
         IF answer = "declined"
         THEN /\ pc' = "exit"
              /\ retcode' = 1
              /\ outcome' = "declined"
              /\ UNCHANGED <<outfile, gp>>
         ELSE IF ~fopenok
         THEN /\ pc' = "exit"
              /\ gp' = pclose(gp)
              /\ retcode' = (IF crash THEN retcode ELSE ERR_FILE)
              /\ outcome' = (IF crash THEN "crashed" ELSE "nofile")
              /\ UNCHANGED outfile
         ELSE /\ pc' = "popen"
              /\ outfile' = "open"
              /\ UNCHANGED <<retcode, outcome, gp>>
    /\ UNCHANGED <<cfgvars, readvars, rampvars, do_graph, do_reset, key, loop, inst, fbuf,
                   disk, gpcmds, kbd, bus, cycle, events, failed, released>>

\* variant: do_graph is left set when popen fails
LaunchGnuplot_KeepsGraph ==
    /\ pc = "popen"
    /\ \E popenok \in BOOLEAN :
         IF popenok
         THEN /\ gp' = "open"
              /\ UNCHANGED do_graph
         ELSE /\ gp' = "NULL"
              /\ UNCHANGED do_graph
    /\ pc' = "gpdefaults"
    /\ UNCHANGED <<cfgvars, readvars, rampvars, do_reset, key, loop, inst, filevars, gpcmds,
                   kbd, bus, cycle, events, failed, released, outcome, retcode>>

LaunchGnuplot ==
    /\ pc = "popen"
    /\ \E popenok \in BOOLEAN :
         IF popenok
         THEN /\ gp' = "open"
              /\ UNCHANGED do_graph
         ELSE /\ gp' = "NULL"
              /\ do_graph' = FALSE
    /\ pc' = "gpdefaults"
    /\ UNCHANGED <<cfgvars, readvars, rampvars, do_reset, key, loop, inst, filevars, gpcmds,
                   kbd, bus, cycle, events, failed, released, outcome, retcode>>

GnuplotDefaults ==
    /\ pc = "gpdefaults"
    /\ gpcmds' = IF do_graph
                 THEN gpcmds \o << "set_defaults",
                                   IF ramp # 0 THEN "labels_iv" ELSE "labels_time" >>
                 ELSE gpcmds
    /\ pc' = "open"
    /\ UNCHANGED <<cfgvars, readvars, rampvars, do_graph, do_reset, key, loop, inst, filevars,
                   gp, kbd, bus, cycle, events, failed, released, outcome, retcode>>

(* ---- main(): open and set up the instrument ---- *)
OpenInstrument ==
    /\ pc = "open"
    /\ \E devok \in BOOLEAN, wrtok \in BOOLEAN :
         LET res == hp663X_open(bus, do_reset, devok, wrtok) IN
           /\ inst' = res.ret
           /\ bus' = res.bus
           /\ IF res.ret = 0
              THEN /\ gp' = PcloseIfOpen(gp)
                   /\ pc' = "exit"
                   /\ retcode' = ERR_INST
                   /\ failed' = "open"
                   /\ outcome' = "failure"
              ELSE /\ pc' = "setup"
                   /\ UNCHANGED <<gp, retcode, failed, outcome>>
    /\ UNCHANGED <<cfgvars, readvars, rampvars, do_graph, do_reset, key, loop, filevars,
                   gpcmds, kbd, cycle, events, released>>

SetupInstrument ==
    /\ pc = "setup"
    /\ \E wrtok \in BOOLEAN :
         LET res == hp663X_setup(bus, IF ramp > 0 THEN 0 ELSE set_volt,
                                 set_limvolt, wrtok) IN
           /\ bus' = res.bus
           /\ IF res.ret = 0
              THEN /\ gp' = PcloseIfOpen(gp)
                   /\ pc' = "exit"
                   /\ retcode' = ERR_INST
                   /\ failed' = "setup"
                   /\ outcome' = "failure"
              ELSE /\ pc' = (IF delay = 0 THEN "close" ELSE "header")
                   /\ UNCHANGED <<gp, retcode, failed, outcome>>
    /\ UNCHANGED <<cfgvars, readvars, rampvars, do_graph, do_reset, key, loop, inst, filevars,
                   gpcmds, kbd, cycle, events, released>>

(* ---- main(): file header, ramp start, keyboard ---- *)
WriteHeader ==
    /\ pc = "header"
    /\ fbuf' = fbuf \o Header
    /\ ramp_volt' = (IF ramp > 0 THEN set_volt ELSE max_volt)
    /\ kbd' = "raw"
    /\ key' = 0
    /\ pc' = "top"
    /\ UNCHANGED <<cfgvars, readvars, ramp, dramp, dramp_avail, do_graph, do_reset, loop, inst,
                   outfile, disk, gpvars, bus, cycle, events, failed, released,
                   outcome, retcode>>

(* ---- main(): the acquisition loop ---- *)
\* top of the do loop: the ramp branch up to "ramp_volt += ramp*0.001".
\* Static mode never leaves the loop by itself: MaxStaticCycles caps it.
RampDecision ==
    /\ pc = "top"
    /\ ramp = 0 => cycle < MaxStaticCycles
    /\ cycle' = cycle + 1
    /\ events' = << >>
    /\ IF ramp = 0
       THEN /\ pc' = "wait"
            /\ UNCHANGED <<rampvars, key, fbuf, outcome>>
       ELSE IF BoundReached(ramp, ramp_volt, max_volt, set_volt)
            THEN IF ~dramp
                 THEN /\ key' = ESC
                      /\ pc' = "footer"
                      /\ outcome' = "completed"
                      /\ UNCHANGED <<rampvars, fbuf>>
                 ELSE /\ ramp' = Reversal(ramp).ramp
                      /\ dramp_avail' = Reversal(ramp).dramp_avail
                      /\ dramp' = Reversal(ramp).dramp
                      /\ fbuf' = fbuf \o SegmentBoundary
                      /\ ramp_volt' = ramp_volt + ramp'
                      /\ pc' = "vset"
                      /\ UNCHANGED <<key, outcome>>
            ELSE /\ ramp_volt' = ramp_volt + ramp
                 /\ pc' = "vset"
                 /\ UNCHANGED <<ramp, dramp, dramp_avail, key, fbuf, outcome>>
    /\ UNCHANGED <<cfgvars, readvars, do_graph, do_reset, loop, inst, outfile, disk, gpvars,
                   kbd, bus, failed, released, retcode>>

\* variant: the failure exit returns without fclose
LoopFailure_NoClose(stage) ==
    /\ gp' = PcloseIfOpen(gp)
    /\ kbd' = close_keyboard(kbd)
    /\ retcode' = ERR_INST
    /\ failed' = stage
    /\ outcome' = "failure"
    /\ pc' = "exit"
    /\ UNCHANGED <<events, disk, fbuf, outfile>>

\* the failure exit inside the loop: pclose, fclose, close_keyboard, return
LoopFailure(stage) ==
    /\ gp' = PcloseIfOpen(gp)
    /\ disk' = Fflush(disk, fbuf)
    /\ fbuf' = << >>
    /\ outfile' = "closed"
    /\ kbd' = close_keyboard(kbd)
    /\ retcode' = ERR_INST
    /\ failed' = stage
    /\ outcome' = "failure"
    /\ pc' = "exit"
    /\ UNCHANGED events

\* variant: a failed VSET is tried again
SendVSET_Retry ==
    /\ pc = "vset"
    /\ \E wrtok \in BOOLEAN :
         LET res == hp663X_set(bus, "VSET", ramp_volt, wrtok) IN
           /\ bus' = res.bus
           /\ IF res.ret = 0
              THEN /\ failed' = "VSET"
                   /\ UNCHANGED <<pc, events, filevars, gp, kbd, retcode, outcome>>
              ELSE /\ events' = Append(events, "VSET")
                   /\ pc' = AfterSetpoint
                   /\ UNCHANGED <<filevars, gp, kbd, retcode, failed, outcome>>
    /\ UNCHANGED <<cfgvars, readvars, rampvars, do_graph, do_reset, key, loop, inst, gpcmds,
                   cycle, released>>

SendVSET ==
    /\ pc = "vset"
    /\ \E wrtok \in BOOLEAN :
         LET res == hp663X_set(bus, "VSET", ramp_volt, wrtok) IN
           /\ bus' = res.bus
           /\ IF res.ret = 0
              THEN LoopFailure("VSET")
              ELSE /\ events' = Append(events, "VSET")
                   /\ pc' = AfterSetpoint
                   /\ UNCHANGED <<filevars, gp, kbd, retcode, failed, outcome>>
    /\ UNCHANGED <<cfgvars, readvars, rampvars, do_graph, do_reset, key, loop, inst, gpcmds,
                   cycle, released>>

Wait ==
    /\ pc = "wait"
    /\ events' = Append(events, "wait")
    /\ pc' = "vout"
    /\ UNCHANGED <<cfgvars, readvars, rampvars, do_graph, do_reset, key, loop, inst, filevars,
                   gpvars, kbd, bus, cycle, failed, released, outcome, retcode>>

\* hp663X_read followed by sscanf into volt (VOUT?) or amp (IOUT?).
\* The out-of-bounds write of hp663X_read is undefined: the program either
\* goes on (wild = "goes_on") or dies on the spot.
Query(here, what, next) ==
    /\ pc = here
    /\ \E wrtok \in BOOLEAN, rdok \in BOOLEAN, rsp \in Responses(link, odd),
          wild \in {"goes_on", "dies"} :
         LET res == hp663X_read(bus, what, buffer, wrtok, rdok, rsp) IN
           /\ bus' = res.bus
           /\ IF res.ret = 0
              THEN LoopFailure(what) /\ UNCHANGED readvars
              ELSE /\ resp' = rsp
                   /\ odd' = (IF rsp = StdResponse THEN odd ELSE odd + 1)
                   /\ UNCHANGED <<filevars, gp, kbd, retcode, failed>>
                   /\ IF res.oob /\ wild = "dies"
                      THEN /\ pc' = "exit"
                           /\ outcome' = "crashed"
                           /\ UNCHANGED <<buffer, volt, amp, events>>
                      ELSE /\ buffer' = res.result
                           /\ volt' = (IF what = "VOUT?" THEN sscanf_f(res.result, volt)
                                       ELSE volt)
                           /\ amp' = (IF what = "IOUT?" THEN sscanf_f(res.result, amp)
                                      ELSE amp)
                           /\ events' = Append(events, what)
                           /\ pc' = next
                           /\ UNCHANGED outcome
    /\ UNCHANGED <<cfgvars, rampvars, do_graph, do_reset, key, loop, inst, gpcmds,
                   cycle, released>>

ReadVOUT == Query("vout", "VOUT?", "iout")

ReadIOUT == Query("iout", "IOUT?", "append")

AppendRecord ==
    /\ pc = "append"
    /\ loop' = loop + 1
    /\ fbuf' = Append(fbuf, Rec(loop + 1, ramp, volt, amp))
    /\ events' = Append(events, "append")
    /\ pc' = "flush"
    /\ UNCHANGED <<cfgvars, readvars, rampvars, do_graph, do_reset, key, inst, outfile, disk,
                   gpvars, kbd, bus, cycle, failed, released, outcome, retcode>>

\* variant: the plot is refreshed without fflush(outfile)
FlushAndPlot_NoFlush ==
    /\ pc = "flush"
    /\ IF loop % do_flush = 0
       THEN /\ UNCHANGED <<disk, fbuf>>
            /\ gpcmds' = IF do_graph THEN Append(gpcmds, PlotCmd(ramp, dramp_avail))
                         ELSE gpcmds
       ELSE UNCHANGED <<disk, fbuf, gpcmds>>
    /\ pc' = "poll"
    /\ UNCHANGED <<cfgvars, readvars, rampvars, do_graph, do_reset, key, loop, inst, outfile,
                   gp, kbd, bus, cycle, events, failed, released, outcome, retcode>>

\* variant: the plot is refreshed in every cycle
FlushAndPlot_PlotsAlways ==
    /\ pc = "flush"
    /\ IF loop % do_flush = 0
       THEN /\ disk' = Fflush(disk, fbuf)
            /\ fbuf' = << >>
            /\ gpcmds' = IF do_graph THEN Append(gpcmds, PlotCmd(ramp, dramp_avail))
                         ELSE gpcmds
       ELSE /\ UNCHANGED <<disk, fbuf>>
            /\ gpcmds' = IF do_graph THEN Append(gpcmds, PlotCmd(ramp, dramp_avail))
                         ELSE gpcmds
    /\ pc' = "poll"
    /\ UNCHANGED <<cfgvars, readvars, rampvars, do_graph, do_reset, key, loop, inst, outfile,
                   gp, kbd, bus, cycle, events, failed, released, outcome, retcode>>

FlushAndPlot ==
    /\ pc = "flush"
    /\ IF loop % do_flush = 0
       THEN /\ disk' = Fflush(disk, fbuf)
            /\ fbuf' = << >>
            /\ gpcmds' = IF do_graph THEN Append(gpcmds, PlotCmd(ramp, dramp_avail))
                         ELSE gpcmds
       ELSE UNCHANGED <<disk, fbuf, gpcmds>>
    /\ pc' = "poll"
    /\ UNCHANGED <<cfgvars, readvars, rampvars, do_graph, do_reset, key, loop, inst, outfile,
                   gp, kbd, bus, cycle, events, failed, released, outcome, retcode>>

\* a byte stored in a plain char and widened to int: char is signed on the
\* x86 platforms the program builds for (it includes <sys/io.h>)
ToChar(b) == IF b >= 128 THEN b - 256 ELSE b

\* kbhit() with peek_character = pk; b is the byte waiting on the terminal,
\* 0 if there is none: the return value and the new peek_character
kbhit(pk, b) ==
    IF pk # NO_PEEK THEN [ret |-> 1, peek |-> pk]
    ELSE IF b # 0 THEN [ret |-> 1, peek |-> ToChar(b)]
    ELSE [ret |-> 0, peek |-> pk]

\* the end of the loop body once key is k: the do ... while condition
LoopCondition(k) ==
    /\ key' = k
    /\ IF LoopContinues(k)
       THEN /\ pc' = "top"
            /\ UNCHANGED outcome
       ELSE /\ pc' = "footer"
            /\ outcome' = "cancelled"

\* "if (kbhit()) key = readch();" and the loop condition.  readch() returns
\* the peeked character; when kbhit() returned 1 and peek_character is
\* still -1, readch() falls through to a blocking read().
PollKeyboard ==
    /\ pc = "poll"
    /\ \E b \in KeyChoices \cup {0} :
         LET h == kbhit(NO_PEEK, b) IN
           IF h.ret = 0 THEN LoopCondition(key)
           ELSE IF h.peek # NO_PEEK THEN LoopCondition(h.peek)
           ELSE /\ pc' = "readch"
                /\ UNCHANGED <<key, outcome>>
    /\ UNCHANGED <<cfgvars, readvars, rampvars, do_graph, do_reset, loop, inst, filevars,
                   gpvars, kbd, bus, cycle, events, failed, released, retcode>>

\* readch() blocked in read(0, &ch, 1) until the next byte arrives
ReadchBlocked ==
    /\ pc = "readch"
    /\ \E b \in KeyChoices : LoopCondition(ToChar(b))
    /\ UNCHANGED <<cfgvars, readvars, rampvars, do_graph, do_reset, loop, inst, filevars,
                   gpvars, kbd, bus, cycle, events, failed, released, retcode>>

(* ---- main(): after the loop ---- *)
WriteFooter ==
    /\ pc = "footer"
    /\ disk' = Fflush(disk, fbuf \o Footer)
    /\ fbuf' = << >>
    /\ outfile' = "closed"
    /\ pc' = "close"
    /\ UNCHANGED <<cfgvars, readvars, rampvars, do_graph, do_reset, key, loop, inst, gpvars,
                   kbd, bus, cycle, events, failed, released, outcome, retcode>>

\* label end: hp663X_close and its failure exit
CloseInstrument ==
    /\ pc = "close"
    /\ released' = TRUE
    /\ \E wrtok \in BOOLEAN :
         LET res == hp663X_close(bus, do_reset, wrtok) IN
           /\ bus' = res.bus
           /\ IF res.ret = 0
              THEN /\ gp' = PcloseIfOpen(gp)
                   /\ kbd' = close_keyboard(kbd)
                   /\ retcode' = ERR_INST
                   /\ failed' = "close"
                   /\ outcome' = "failure"
                   /\ pc' = "exit"
              ELSE /\ pc' = "replot"
                   /\ UNCHANGED <<gp, kbd, retcode, failed, outcome>>
    /\ UNCHANGED <<cfgvars, readvars, rampvars, do_graph, do_reset, key, loop, inst, filevars,
                   gpcmds, cycle, events>>

\* final replot, pclose, close_keyboard, return 0
Replot ==
    /\ pc = "replot"
    /\ IF do_graph
       THEN /\ gpcmds' = Append(gpcmds, PlotCmd(ramp, dramp_avail))
            /\ gp' = "closed"
       ELSE UNCHANGED <<gp, gpcmds>>
    /\ kbd' = close_keyboard(kbd)
    /\ retcode' = 0
    /\ outcome' = (IF outcome = "running" THEN "configured" ELSE outcome)
    /\ pc' = "exit"
    /\ UNCHANGED <<cfgvars, readvars, rampvars, do_graph, do_reset, key, loop, inst, filevars,
                   bus, cycle, events, failed, released>>

Next ==
    \/ CheckArgs
    \/ OpenOutfile
    \/ LaunchGnuplot
    \/ GnuplotDefaults
    \/ OpenInstrument
    \/ SetupInstrument
    \/ WriteHeader
    \/ RampDecision
    \/ SendVSET
    \/ Wait
    \/ ReadVOUT
    \/ ReadIOUT
    \/ AppendRecord
    \/ FlushAndPlot
    \/ PollKeyboard
    \/ ReadchBlocked
    \/ WriteFooter
    \/ CloseInstrument
    \/ Replot

Spec == Init /\ [][Next]_vars

SpecNoisy == InitNoisy /\ [][Next]_vars

TypeOK ==
    /\ pc \in {"args", "fopen", "popen", "gpdefaults", "open", "setup", "header",
               "top", "vset", "wait", "vout", "iout", "append", "flush", "poll", "readch",
               "footer", "close", "replot", "exit"}
    /\ outfile \in {"NULL", "open", "closed"}
    /\ gp \in {"NULL", "open", "closed", "invalid"}
    /\ loop \in Nat /\ cycle \in Nat

(* ---- observables used by the properties ---- *)
IsVSET(c) == c.cmd = "VSET"
IsRec(l) == l.kind = "rec"

\* the setpoints sent by the loop, in order
VSets == SelectSeq(bus, IsVSET)

\* the dataset file as a reader sees it once everything written has landed
FileLines == disk \o fbuf

\* positions where two consecutive blank lines start
Boundaries(f) == {i \in 1..(Len(f) - 1) : f[i].kind = "blank" /\ f[i + 1].kind = "blank"}

\* the records of f carry the cycle numbers 1..n in order
RecordsAre(f, n) ==
    LET recs == SelectSeq(f, IsRec) IN
      /\ Len(recs) = n
      /\ \A i \in 1..n : recs[i].cyc = i

IsPrefix(s, t) == Len(s) <= Len(t) /\ \A i \in 1..Len(s) : s[i] = t[i]

RampSpan == argv.U - argv.u
SpanIsMultiple == argv.r # 0 /\ RampSpan % Abs(argv.r) = 0

\* the records of the file
Records(f) == SelectSeq(f, IsRec)

(* ---- C1 ---- *)
\* C1: in a ramp run without dual mode every voltage sent with VSET during
\* the loop lies between the ramp start and the ramp end voltage.
C1_SetpointsWithinRamp ==
    (argv.r # 0 /\ ~argv.R) =>
        \A i \in DOMAIN VSets : argv.u <= VSets[i].val /\ VSets[i].val <= argv.U

(* ---- C2 ---- *)
\* C2: a completed non-dual upward ramp whose span is a whole multiple of
\* the step has sent exactly start+step, start+2*step, ..., end.
C2_ExactUpwardSetpoints ==
    (outcome = "completed" /\ ~argv.R /\ argv.r > 0 /\ SpanIsMultiple) =>
        /\ Len(VSets) = RampSpan \div argv.r
        /\ \A i \in DOMAIN VSets : VSets[i].val = argv.u + i * argv.r

(* ---- C3 ---- *)
\* C3: a completed dual upward ramp whose span is a whole multiple of the
\* step has sent, after the reversal, exactly end-step, ..., start as its
\* last setpoints, and has never commanded a value below the start voltage.
C3_ExactReturnSetpoints ==
    (outcome = "completed" /\ argv.R /\ argv.r > 0 /\ SpanIsMultiple) =>
        LET n == RampSpan \div argv.r
            m == Len(VSets) IN
          /\ m = 2 * n
          /\ \A i \in 1..n : i <= m => VSets[m - n + i].val = argv.U - i * argv.r
          /\ \A i \in DOMAIN VSets : VSets[i].val >= argv.u

(* ---- C4 ---- *)
\* C4: a non-dual ramp that runs to completion takes at most
\* ceil(|end - start| / |step|) + 1 ramp decisions, the terminating one included.
C4_DecisionBound ==
    (outcome = "completed" /\ ~argv.R /\ argv.r # 0) =>
        cycle <= CeilDiv(RampSpan, Abs(argv.r)) + 1

(* ---- C5 ---- *)
C5_Inv ==
    /\ \/ ramp = argv.r /\ ~dramp_avail
       \/ ramp = 0 - argv.r /\ dramp_avail /\ argv.R /\ ~dramp /\ argv.r # 0
    /\ ~argv.R => ramp = argv.r
    /\ (argv.R /\ outcome = "completed") => (ramp = 0 - argv.r /\ dramp_avail)

C5_Step ==
    /\ ramp' # ramp => (~dramp_avail /\ dramp_avail' /\ ramp' = 0 - ramp)
    /\ dramp_avail => (dramp_avail' /\ ramp' = ramp)
    /\ (pc = "top" /\ dramp_avail /\ ((ramp > 0 /\ ramp_volt > max_volt)
                                       \/ (ramp < 0 /\ ramp_volt < set_volt)))
         => (pc' = "footer" /\ outcome' = "completed")

\* C5: the ramp step changes sign at most once; a dual run that completes has
\* changed it exactly once, to the negation of the initial step; a non-dual run
\* never changes it; after a reversal the next bound reached ends the ramp.
C5_SingleReversal == []C5_Inv /\ [][C5_Step]_vars

C5_Witness ==
    pc = "exit" /\ argv.R /\ outcome = "completed" /\ argv.r # 0 /\ ramp = 0 - argv.r

(* ---- C6 ---- *)
\* C6: the dataset holds at most one segment boundary, exactly two consecutive
\* blank lines, present exactly when a dual run has reversed; the records
\* before it were sampled outbound, those after it returning, and at least
\* one record precedes it.
C6_SegmentBoundary ==
    LET f == FileLines
        B == Boundaries(f) IN
      /\ Cardinality(B) <= 1
      /\ (B # {}) <=> dramp_avail
      /\ (B # {}) => (argv.R /\ argv.r # 0)
      /\ \A i \in B :
           /\ \E j \in 1..(i - 1) : IsRec(f[j])
           /\ \A j \in 1..Len(f) :
                IsRec(f[j]) => /\ j < i => f[j].ramp = argv.r
                               /\ j > i => f[j].ramp = 0 - argv.r

C6_Witness ==
    /\ pc = "exit"
    /\ \E i \in Boundaries(disk) : \E j \in (i + 2)..Len(disk) : IsRec(disk[j])

(* ---- C7 ---- *)
CycleOrder == IF ramp # 0 THEN << "VSET", "wait", "VOUT?", "IOUT?", "append" >>
              ELSE << "wait", "VOUT?", "IOUT?", "append" >>

\* C7: within every loop cycle the events occur in the order VSET (ramp mode
\* only), wait, VOUT?, IOUT?, append; a record is appended only in a cycle
\* that has gone through all the earlier events.
C7_CycleOrder ==
    /\ IsPrefix(events, CycleOrder)
    /\ SelectSeq(FileLines, IsRec) # << >> =>
         LET recs == SelectSeq(FileLines, IsRec) IN
           /\ Len(recs) = loop
           /\ (recs[loop].cyc = cycle) <=> (events = CycleOrder)

C7_Witness == pc = "flush" /\ ramp # 0 /\ events = CycleOrder /\ loop = 2

(* ---- C8 ---- *)
\* C8: a failed VOUT? or IOUT? query in cycle k ends the run with an
\* instrument failure; the file is closed holding exactly the records of
\* cycles 1..k-1.
C8_QueryFailure ==
    (pc = "exit" /\ failed \in {"VOUT?", "IOUT?"}) =>
        /\ retcode = ERR_INST
        /\ outfile = "closed"
        /\ fbuf = << >>
        /\ loop = cycle - 1
        /\ RecordsAre(disk, cycle - 1)

C8_Witness ==
    pc = "exit" /\ failed = "IOUT?" /\ cycle = 3 /\ do_flush = MaxFlush /\ RecordsAre(disk, 2)

(* ---- C9 ---- *)
C9_Inv ==
    outcome = "cancelled" =>
        /\ pc \in {"footer", "close", "replot", "exit"}
        /\ loop = cycle
        /\ pc # "footer" => (outfile = "closed" /\ fbuf = << >> /\ RecordsAre(disk, cycle))

C9_Step ==
    (pc = "poll" /\ key' \in {KEY_q, ESC}) =>
        /\ pc' = "footer"
        /\ outcome' = "cancelled"
        /\ events[Len(events)] = "append"
        /\ RecordsAre(FileLines, cycle)

\* C9: a quit or escape key read by the poll of cycle k finds the record of
\* cycle k appended, starts no further cycle, and the file is closed holding
\* all k records.
C9_CancelAtCycleEnd == []C9_Inv /\ [][C9_Step]_vars

C9_Witness ==
    pc = "exit" /\ outcome = "cancelled" /\ loop = 2 /\ do_flush = MaxFlush /\ RecordsAre(disk, 2)

(* ---- C10 ---- *)
\* C10: on every exit path taken after the instrument was opened, the
\* instrument is released (hp663X_close is called) before the program exits.
C10_ReleasedOnEveryExit ==
    (pc = "exit" /\ inst # 0) => released

(* ---- C11 ---- *)
\* C11: a VOUT? or IOUT? response that does not parse as a number aborts the
\* run: the cycle does not go on to the next query or to the append, and
\* no record logs a value that no reading of its cycle has set.
C11_MalformedAborts ==
    /\ (pc \in {"iout", "append"}) => Parseable(resp)
    /\ \A i \in DOMAIN FileLines :
         IsRec(FileLines[i]) => (FileLines[i].volt # Uninit /\ FileLines[i].amp # Uninit)

(* ---- C12 ---- *)
\* C12: a failed VSET in cycle k ends the run at once with an instrument
\* failure: that cycle has no wait, query or append, the command is not sent
\* again, and the closed file holds exactly the records of cycles 1..k-1.
C12_VsetFailure ==
    (failed = "VSET") =>
        /\ pc = "exit"
        /\ retcode = ERR_INST
        /\ events = << >>
        /\ loop = cycle - 1
        /\ Len(VSets) = cycle - 1
        /\ outfile = "closed"
        /\ fbuf = << >>
        /\ RecordsAre(disk, cycle - 1)

C12_Witness ==
    pc = "exit" /\ failed = "VSET" /\ cycle = 3 /\ do_flush = MaxFlush /\ RecordsAre(disk, 2)

(* ---- C13 ---- *)
\* C13: a key other than 'q' and ESC read by the cancellation poll has no
\* effect on the run: the loop goes on to its next cycle and nothing but
\* key has changed.
C13_OtherKeysIgnored ==
    [][(pc = "poll" /\ key' \notin {KEY_q, ESC}) =>
          (pc' = "top" /\
           UNCHANGED <<cfgvars, readvars, rampvars, do_graph, do_reset, loop, inst,
                       filevars, gpvars, kbd, bus, cycle, events, failed, released,
                       outcome, retcode>>)]_vars

(* ---- C14 ---- *)
C14_Inv ==
    (argv.r = 0) =>
        /\ VSets = << >>
        /\ Boundaries(FileLines) = {}
        /\ (cycle > 0 /\ pc \in {"footer", "close", "replot", "exit"}) =>
               (key \in {KEY_q, ESC} \/ failed \in {"VOUT?", "IOUT?"})

C14_Step ==
    (argv.r = 0) =>
        /\ (pc = "top") => (pc' = "wait" /\ cycle' = cycle + 1)
        /\ (pc \in {"poll", "readch"} /\ key' \notin {KEY_q, ESC}) =>
               pc' \in {"top", "readch"}

C15_DualWithoutRampRejected ==
    (argv.R /\ argv.r = 0) => (bus = << >> /\ cycle = 0)

(* ---- C16 ---- *)
\* popen(gnuplot, "w") was called and returned NULL
PopenFailed == gp = "NULL" /\ outfile # "NULL" /\ pc # "popen"

C16_Inv ==
    /\ (gp = "NULL") => gpcmds = << >>
    /\ PopenFailed => ~do_graph

C16_Step ==
    /\ (pc = "popen") =>
          (pc' = "gpdefaults" /\ UNCHANGED <<retcode, outcome, bus, filevars>>)
    /\ PopenFailed => UNCHANGED <<gp, gpcmds>>
    /\ (pc = "gpdefaults") => (pc' = "open" /\ UNCHANGED <<bus, filevars>>)
    /\ (pc = "flush") =>
          (pc' = "poll" /\ bus' = bus /\ outfile' = outfile /\
           disk' \o fbuf' = disk \o fbuf /\
           ((loop % do_flush = 0) <=> fbuf' = << >>))
    /\ (pc = "replot") => (pc' = "exit" /\ retcode' = 0 /\ UNCHANGED <<bus, filevars>>)

\* C16: a gnuplot that cannot be launched does not abort the run; no plot
\* command is dispatched then, during the loop or after it, and the steps
\* that depend on plotting leave the instrument commands and the dataset
\* as they are without it.
C16_PlottingIsOptional == []C16_Inv /\ [][C16_Step]_vars

C16_Witness ==
    /\ pc = "exit" /\ PopenFailed /\ ~argv.n /\ retcode = 0
    /\ loop >= do_flush /\ do_flush = MaxFlush /\ RecordsAre(disk, loop)

(* ---- C17 ---- *)
\* C17: with a sampling interval of 0 the program sends the setup command
\* and tears down: no loop cycle, no VSET of the ramp, no query, no dataset
\* line, no plot command and no reset, neither at open nor at close.
C17_ConfigureOnly ==
    (argv.t = 0) =>
        /\ cycle = 0 /\ loop = 0
        /\ disk = << >> /\ fbuf = << >> /\ outfile = "NULL"
        /\ gpcmds = << >> /\ gp = "NULL"
        /\ Len(bus) <= 1
        /\ \A i \in DOMAIN bus : bus[i].cmd = "VSET;ISET;OVSET;OCP"
        /\ (pc = "exit" /\ retcode = 0) => (Len(bus) = 1 /\ released)

C17_Witness ==
    pc = "exit" /\ argv.t = 0 /\ retcode = 0 /\ ~argv.k /\ ~argv.n /\ argv.r # 0 /\ Len(bus) = 1

(* ---- C18 ---- *)
LoopPcs == {"decide", "vset", "wait", "vout", "iout", "append", "flush", "poll", "readch"}
PlotCmds == {"plot_iv_index01", "plot_iv", "plot_time"}

\* C18: the step after the append of cycle n (loop = n >= 1) moves the whole
\* dataset to storage if and only if n is a multiple of do_flush, and sends
\* one plot command if and only if, in addition, do_graph is set; the record
\* of cycle n is then the last line in storage.  No other step of a cycle
\* that stays in the loop touches storage or the plot.
C18_Step ==
    /\ (pc = "flush") =>
          /\ loop >= 1
          /\ fbuf # << >>
          /\ (loop % do_flush = 0) <=> (disk' = disk \o fbuf /\ fbuf' = << >>)
          /\ (loop % do_flush # 0) <=> (disk' = disk /\ fbuf' = fbuf)
          /\ (do_graph /\ loop % do_flush = 0) <=>
                 (Len(gpcmds') = Len(gpcmds) + 1 /\ gpcmds'[Len(gpcmds')] \in PlotCmds
                    /\ SubSeq(gpcmds', 1, Len(gpcmds)) = gpcmds)
          /\ (~(do_graph /\ loop % do_flush = 0)) <=> (gpcmds' = gpcmds)
          /\ (gpcmds' # gpcmds) =>
                 (disk' # << >> /\ disk'[Len(disk')].kind = "rec" /\ disk'[Len(disk')].cyc = loop)
    /\ (pc \in LoopPcs \ {"flush"} /\ pc' \in LoopPcs) => (disk' = disk /\ gpcmds' = gpcmds)

C18_FlushCadence == [][C18_Step]_vars

C18_Witness ==
    /\ pc = "poll" /\ do_graph /\ do_flush = MaxFlush /\ loop = 2 * MaxFlush
    /\ fbuf = << >> /\ RecordsAre(disk, loop)
    /\ Len(SelectSeq(gpcmds, LAMBDA c : c \in PlotCmds)) = 2

(* ---- C19 ---- *)
\* C19: every plot command sent, by the periodic refresh or by the final
\* replot, is the time-series template in static mode and a
\* current-against-voltage template in ramp mode, where it is the form with
\* two indexed series if and only if the dataset holds a segment boundary.
C19_Step ==
    (pc \in {"flush", "replot"} /\ gpcmds' # gpcmds) =>
        gpcmds' = Append(gpcmds,
                         IF argv.r = 0 THEN "plot_time"
                         ELSE IF Boundaries(disk' \o fbuf') # {} THEN "plot_iv_index01"
                         ELSE "plot_iv")

C19_Inv ==
    \A i \in DOMAIN gpcmds :
        /\ gpcmds[i] = "plot_time" => argv.r = 0
        /\ gpcmds[i] \in {"plot_iv", "plot_iv_index01"} => argv.r # 0
        /\ gpcmds[i] = "plot_iv_index01" => Boundaries(FileLines) # {}

C19_PlotTemplate == []C19_Inv /\ [][C19_Step]_vars

C19_Witness ==
    /\ pc = "exit" /\ retcode = 0
    /\ \E i, j \in DOMAIN gpcmds :
          i < j /\ gpcmds[i] = "plot_iv" /\ gpcmds[j] = "plot_iv_index01"

(* ---- C20 ---- *)
RECURSIVE StripEOL(_)
\* rsp without its trailing CR and LF bytes
StripEOL(rsp) ==
    IF rsp # << >> /\ rsp[Len(rsp)] \in {"CR", "LF"}
    THEN StripEOL(SubSeq(rsp, 1, Len(rsp) - 1))
    ELSE rsp

\* C20: after every VOUT? or IOUT? query that returned a response, the text
\* in the buffer that sscanf parses is the response without its trailing
\* CR and LF bytes, and with every other byte kept.
C20_Step ==
    (pc \in {"vout", "iout"} /\ pc' \in {"iout", "append"}) => buffer' = StripEOL(resp')

C20_TerminatorsStripped == [][C20_Step]_vars

(* ---- C21 ---- *)
IsFtr(l) == l.kind = "ftr"

\* the header block comes first and once, the boundary at most once
C21_HeaderFirst ==
    LET f == FileLines IN
      /\ (f # << >>) => (Len(f) >= Len(Header) /\ SubSeq(f, 1, Len(Header)) = Header)
      /\ \A i \in DOMAIN f : (f[i].kind = "hdr") => i <= Len(Header)
      /\ Cardinality(Boundaries(f)) <= 1

\* at most one footer, after every record
C21_FooterLast ==
    LET f == FileLines IN
      /\ Len(SelectSeq(f, IsFtr)) <= 1
      /\ \A i, j \in DOMAIN f : (IsFtr(f[i]) /\ IsRec(f[j])) => j < i

\* a run that has written the header ends with the file closed and the
\* footer in it
C21_FooterOnEveryPath ==
    /\ (outfile = "closed") => (fbuf = << >> /\ Len(SelectSeq(disk, IsFtr)) = 1)
    /\ (pc = "exit" /\ FileLines # << >>) => outfile = "closed"

\* C21: the dataset file is the header block, then the records with at most
\* one segment boundary, then the stop footer, written exactly once after
\* the last record and before the file is closed, on every path that ends
\* the run after the header was written.
C21_FileShape == C21_HeaderFirst /\ C21_FooterLast /\ C21_FooterOnEveryPath

(* ---- C22 ---- *)
\* the parameter combinations the claim is about
Accepted ==
    /\ 0 <= argv.u /\ argv.u <= argv.U /\ argv.U <= argv.M /\ argv.M <= MAXVOLT * 1000
    /\ Abs(argv.r) <= 1000

\* C22: for an accepted parameter combination every voltage sent with VSET,
\* by the setup command or by the loop, is at least 0 and at most the
\* voltage limit sent as OVSET.
C22_VsetWithinLimit ==
    Accepted =>
        \A i \in DOMAIN bus :
            (bus[i].cmd \in {"VSET", "VSET;ISET;OVSET;OCP"}) =>
                (0 <= bus[i].val /\ bus[i].val <= set_limvolt)

(* ---- C23 ---- *)
\* close_keyboard() has run only after init_keyboard()
C23_RestoreAfterSave == kbd # "zeroed"

\* the program does not exit with the terminal left in raw mode
C23_RestoredOnExit == (pc = "exit") => kbd # "raw"

\* C23: the terminal settings are restored only after they were saved
\* earlier in the run, and once saved they are restored before every exit.
C23_KeyboardPaired == C23_RestoreAfterSave /\ C23_RestoredOnExit

(* ---- C24 ---- *)
\* pclose is called only on a handle that popen returned
C24_CloseAfterOpen == gp # "invalid"

\* the program does not exit with the pipe to gnuplot still open
C24_ClosedOnExit == (pc = "exit") => gp # "open"

\* C24: the plotting handle is closed only after it was opened, and once
\* gnuplot was launched the handle is closed before the program exits, on
\* every exit path, also with -n and when the dataset file cannot be opened.
C24_PlotHandleScoped == C24_CloseAfterOpen /\ C24_ClosedOnExit

(* ---- C25 ---- *)
\* f holds a segment boundary with a record of the returning segment after it
ReturnRecordIn(f) ==
    \E i \in Boundaries(f) :
        \E j \in (i + 2)..Len(f) : IsRec(f[j]) /\ f[j].ramp = 0 - argv.r

C25_Step ==
    (pc \in {"flush", "replot"} /\ gpcmds' = Append(gpcmds, "plot_iv_index01")) =>
        ReturnRecordIn(disk')

C25_Inv ==
    (\E i \in DOMAIN gpcmds : gpcmds[i] = "plot_iv_index01") => ReturnRecordIn(disk)

\* C25: when a plot command with two indexed series is sent, by the periodic
\* refresh or by the final replot, the stored dataset holds the segment
\* boundary followed by at least one record of the returning segment.
C25_SecondIndexExists == []C25_Inv /\ [][C25_Step]_vars

C25_Witness ==
    /\ pc = "poll" /\ do_flush = 1
    /\ gpcmds # << >> /\ gpcmds[Len(gpcmds)] = "plot_iv_index01"
    /\ \E i \in Boundaries(disk) : i + 2 = Len(disk) /\ IsRec(disk[i + 2])

=============================================================================
